---- MODULE Spec2Model ----
(***************************************************************************)
(* Model of the MCP servers of mcp-server-serper.                          *)
(*                                                                         *)
(*   Spec      the SSE server (mcp-server-python/.../server.py): the auth  *)
(*             middleware, GET /sse, the body of sse_stream, POST          *)
(*             /messages, GET /_health, GET / and shutdown(), for clients  *)
(*             that present the configured token or none.                  *)
(*   GateSpec  the same server for every token setting and every           *)
(*             Authorization header, session header and message type.      *)
(*   StdioSpec the stdio servers (main.py and mcp_serper_server.py): the   *)
(*             read / json.loads / handle_message / write loop.            *)
(*   CallSpec  single calls of SSEServerTransport.send_message, of the     *)
(*             async SerperClient and of the autocomplete tool, each with  *)
(*             the requests it issues and the way it ends.                 *)
(*                                                                         *)
(* The specifications share no state; each leaves the variables of the     *)
(* others at their initial values.                                         *)
(***************************************************************************)
EXTENDS Integers, Sequences, FiniteSets, TLC

VARIABLES
    \* ---- SSE server ----
    token,          \* config.MCP_TOKEN
    transports,     \* MCPServerApp.transports: session id -> transport
    tr,             \* the SSEServerTransport objects, one per /sse request
    pc,             \* where each /sse connection's sse_stream stands
    innerSent,      \* per transport: what transport.response.send accepted
    clientStream,   \* per connection: events of the response returned by /sse
    reqs,           \* the POST /messages handlers (accepted toolInvocations)
    stopped,        \* shutdown() has been called
    last,           \* the HTTP exchange completed last
    \* ---- stdio server ----
    server,         \* which stdio server runs: "main" or "mcp_serper_server"
    stdin,          \* the input lines read so far
    spc,            \* position in main(): "read", "loads", "crashed"
    line,           \* the line being processed
    stdout,         \* the response lines written
    \* ---- single calls of a method ----
    calls           \* the calls made: arguments, what each sent, how it ended

sseVars == <<token, transports, tr, pc, innerSent, clientStream, reqs,
             stopped, last>>
stdioVars == <<server, stdin, spc, line, stdout>>
callVars == <<calls>>
vars == <<sseVars, stdioVars, callVars>>

----------------------------------------------------------------------------
(* Bounds *)

MaxConns == 2
MaxReqs == 1
GateConns == 1
GateReqs == 1
MaxLines == 2
MaxCalls == 2

Conns == 1..MaxConns
Reqs == 1..MaxReqs

----------------------------------------------------------------------------
(* SSE server: values *)

SessionIds == {"s1", "s2"}
Absent == "<absent>"
\* X-MCP-Session-ID as request.headers.get returns it: None, "" or an id
SessionHeaders == SessionIds \cup {Absent, ""}

\* self.transports = {}
EmptyRegistry == [s \in {} |-> 0]

NoToken == "<unset>"
Tokens == {NoToken, "", "tok"}

\* An Authorization header is the sequence of its whitespace-separated words;
\* <<>> is the header that is absent or empty.
NoAuth == <<>>
AuthHeaders == {NoAuth, <<"Bearer", "tok">>, <<"bearer", "tok">>, <<"Bearer", "TOK">>,
                <<"Bearer", "bad">>, <<"Basic", "tok">>, <<"tok">>,
                <<"Bearer", "tok", "x">>}

Paths == {"/", "/sse", "/messages", "/_health"}

ToolNames == <<"google_search", "scrape", "_health">>

Range(s) == {s[i] : i \in DOMAIN s}

----------------------------------------------------------------------------
(* SSE server: auth middleware *)

\* str.lower() on the words that occur in headers and queries
Lower(w) ==
    CASE w \in {"Bearer", "bearer"} -> "bearer"
      [] w = "Basic" -> "basic"
      [] w = "TOK" -> "tok"
      [] w \in {"Google", "GOOGLE"} -> "google"
      [] w = "Busca" -> "busca"
      [] w = "SCRAPE" -> "scrape"
      [] w = "Extrair" -> "extrair"
      [] OTHER -> w

\* Mutant of TokenConfigured: `if config.MCP_TOKEN is not None:`
TokenConfiguredNotNone(tok) == tok # NoToken

\* `if config.MCP_TOKEN:` (None and "" are falsy)
TokenConfigured(tok) == tok \notin {NoToken, ""}

\* Mutant of AuthMiddleware: the token of a well-formed header is not compared
AuthMiddlewareAnyToken(tok, path, auth) ==
    IF TokenConfigured(tok) /\ path # "/_health"
    THEN IF auth = NoAuth THEN 401
         ELSE IF Len(auth) # 2 \/ Lower(auth[1]) # "bearer" THEN 401
         ELSE 0
    ELSE 0

\* auth_middleware: 0 when the request is passed on to call_next, otherwise the
\* status of the JSONResponse it returns
AuthMiddleware(tok, path, auth) ==
    IF TokenConfigured(tok) /\ path # "/_health"
    THEN IF auth = NoAuth THEN 401
         ELSE IF Len(auth) # 2 \/ Lower(auth[1]) # "bearer" THEN 401
         ELSE IF auth[2] # tok THEN 403
         ELSE 0
    ELSE 0

AuthError(status, auth) ==
    IF status = 403 THEN "Token invalido"
    ELSE IF auth = NoAuth THEN "Sem token de autenticacao"
    ELSE "Formato de autenticacao invalido"

\* What a request was and what became of it: the status answered (0 while the
\* handler awaits the upstream call), whether a route handler ran (reached) and
\* whether it called the Serper API (upstream)
Exchange(path, auth, sid, mtype, status, reached, upstream, body, detail) ==
    [path |-> path, auth |-> auth, sid |-> sid, mtype |-> mtype, status |-> status,
     reached |-> reached, upstream |-> upstream, body |-> body, detail |-> detail,
     params |-> {}]

NoExchange == Exchange("", NoAuth, Absent, Absent, 0, FALSE, FALSE, "", "")

\* The event loop is free: the response of the request handled last is written
Idle == last = NoExchange

\* The response of the request handled last is written to its client
Respond ==
    /\ ~Idle
    /\ last' = NoExchange
    /\ UNCHANGED <<token, transports, tr, pc, innerSent, clientStream, reqs, stopped>>
    /\ UNCHANGED <<stdioVars, callVars>>

\* A request the middleware answers itself: no handler runs
AuthReject(path, auth) ==
    /\ Idle
    /\ AuthMiddleware(token, path, auth) # 0
    /\ last' = Exchange(path, auth, Absent, Absent, AuthMiddleware(token, path, auth),
                        FALSE, FALSE, "", AuthError(AuthMiddleware(token, path, auth), auth))
    /\ UNCHANGED <<token, transports, tr, pc, innerSent, clientStream, reqs, stopped>>
    /\ UNCHANGED <<stdioVars, callVars>>

\* GET /
Home(auth) ==
    /\ Idle
    /\ AuthMiddleware(token, "/", auth) = 0
    /\ last' = Exchange("/", auth, Absent, Absent, 200, TRUE, FALSE, "ok", "")
    /\ UNCHANGED <<token, transports, tr, pc, innerSent, clientStream, reqs, stopped>>
    /\ UNCHANGED <<stdioVars, callVars>>

\* GET /_health: one call of serper_client.health(), which never raises
Health(auth, upstreamOk) ==
    /\ Idle
    /\ AuthMiddleware(token, "/_health", auth) = 0
    /\ last' = Exchange("/_health", auth, Absent, Absent, 200, TRUE, TRUE,
                        IF upstreamOk THEN "ok" ELSE "error", "")
    /\ UNCHANGED <<token, transports, tr, pc, innerSent, clientStream, reqs,
                   stopped>>
    /\ UNCHANGED <<stdioVars, callVars>>

----------------------------------------------------------------------------
(* SSE server: transports *)

M(type, name, error, tools, req) ==
    [type |-> type, name |-> name, error |-> error, tools |-> tools, req |-> req]

\* SSEServerTransport.__init__
NewTransport == [session_id |-> Absent, response |-> "None", tools |-> <<>>]

\* register_tools_for_transport: three register_tool calls
RegisterToolsForTransport(t) ==
    [t EXCEPT !.tools = @ \o ToolNames]

\* _send_open_message: the message handed to response.send
OpenMessage(t) == M("open", "", "", t.tools, 0)

\* Mutant of Close: close leaves the response in place
CloseKeepsResponse(t) == t

\* SSEServerTransport.close
Close(t) == IF t.response # "None" THEN [t EXCEPT !.response = "None"] ELSE t

\* send_message: "dropped" when no response is set, otherwise response.send is
\* called, which accepts the payload ("sent") or raises ("raised")
SendOutcome(t, sendOk) ==
    IF t.response = "None" THEN "dropped"
    ELSE IF sendOk THEN "sent" ELSE "raised"

\* send_error: the message it hands to send_message
ErrorMessage(error, req) == M("error", "", error, <<>>, req)

\* `if session_id in self.transports: del self.transports[session_id]`
DeleteTransport(reg, sid) ==
    IF sid \in DOMAIN reg THEN [s \in DOMAIN reg \ {sid} |-> reg[s]] ELSE reg

\* `self.transports[session_id] = transport`
StoreTransport(reg, sid, c) ==
    [s \in DOMAIN reg \cup {sid} |-> IF s = sid THEN c ELSE reg[s]]

\* `if not session_id:` (None and "" are falsy)
Falsy(h) == h \in {Absent, ""}

\* uuid.uuid4() returns an id no transport was given before
UsedIds == {tr[c].session_id : c \in Conns}

\* Mutant of SseEndpoint: `transport.session_id = session_id` is left out
SseEndpointNoSessionId(c, auth, hdr, uuid) ==
    /\ Idle
    /\ AuthMiddleware(token, "/sse", auth) = 0
    /\ pc[c] = "unused" /\ \A d \in DOMAIN pc : d < c => pc[d] # "unused"
    /\ IF Falsy(hdr) THEN uuid \notin UsedIds ELSE uuid = hdr
    /\ tr' = [tr EXCEPT ![c] = RegisterToolsForTransport(NewTransport)]
    /\ transports' = StoreTransport(transports, uuid, c)
    /\ pc' = [pc EXCEPT ![c] = "returned"]
    /\ last' = Exchange("/sse", auth, hdr, Absent, 200, TRUE, FALSE, "", "")
    /\ UNCHANGED <<token, innerSent, clientStream, reqs, stopped>>
    /\ UNCHANGED <<stdioVars, callVars>>

\* GET /sse: the handler up to `return EventSourceResponse(sse_stream())`
SseEndpoint(c, auth, hdr, uuid) ==
    /\ Idle
    /\ AuthMiddleware(token, "/sse", auth) = 0
    /\ pc[c] = "unused" /\ \A d \in DOMAIN pc : d < c => pc[d] # "unused"
    /\ IF Falsy(hdr) THEN uuid \notin UsedIds ELSE uuid = hdr
    /\ tr' = [tr EXCEPT ![c] =
                 RegisterToolsForTransport([NewTransport EXCEPT !.session_id = uuid])]
    /\ transports' = StoreTransport(transports, uuid, c)
    /\ pc' = [pc EXCEPT ![c] = "returned"]
    /\ last' = Exchange("/sse", auth, hdr, Absent, 200, TRUE, FALSE, "", "")
    /\ UNCHANGED <<token, innerSent, clientStream, reqs, stopped>>
    /\ UNCHANGED <<stdioVars, callVars>>

\* Mutant of StreamStart: start sets the response and sends no open message
StreamStartNoOpen(c, sendOk) ==
    /\ Idle
    /\ pc[c] = "returned"
    /\ tr' = [tr EXCEPT ![c].response = "Set"]
    /\ pc' = [pc EXCEPT ![c] = IF sendOk THEN "sleeping" ELSE "failed"]
    /\ UNCHANGED <<token, transports, innerSent, clientStream, reqs,
                   stopped, last>>
    /\ UNCHANGED <<stdioVars, callVars>>

\* The body of sse_stream runs up to its keep-alive loop: transport.start(response)
\* sets the response and sends the open message with response.send
StreamStart(c, sendOk) ==
    /\ Idle
    /\ pc[c] = "returned"
    /\ tr' = [tr EXCEPT ![c].response = "Set"]
    /\ innerSent' = [innerSent EXCEPT ![c] =
                        IF sendOk THEN Append(@, OpenMessage(tr[c])) ELSE @]
    /\ pc' = [pc EXCEPT ![c] = IF sendOk THEN "sleeping" ELSE "failed"]
    /\ UNCHANGED <<token, transports, clientStream, reqs,
                   stopped, last>>
    /\ UNCHANGED <<stdioVars, callVars>>

\* The framework cannot iterate the coroutine object sse_stream() that the
\* handler passed as content: the body never runs and the stream ends
StreamFail(c) ==
    /\ Idle
    /\ pc[c] = "returned"
    /\ pc' = [pc EXCEPT ![c] = "failed"]
    /\ UNCHANGED <<token, transports, tr, innerSent, clientStream, reqs,
                   stopped, last>>
    /\ UNCHANGED <<stdioVars, callVars>>

\* The client goes away before the body of sse_stream has run
EarlyDisconnect(c) ==
    /\ Idle
    /\ pc[c] = "returned"
    /\ pc' = [pc EXCEPT ![c] = "closed"]
    /\ UNCHANGED <<token, transports, tr, innerSent, clientStream, reqs,
                   stopped, last>>
    /\ UNCHANGED <<stdioVars, callVars>>

\* Mutant of StreamCancel: the handler closes the transport and keeps the entry
StreamCancelNoDelete(c) ==
    /\ Idle
    /\ pc[c] = "sleeping"
    /\ tr' = [tr EXCEPT ![c] = Close(@)]
    /\ pc' = [pc EXCEPT ![c] = "cancelled"]
    /\ UNCHANGED <<token, transports, innerSent, clientStream, reqs,
                   stopped, last>>
    /\ UNCHANGED <<stdioVars, callVars>>

\* The client disconnects while sse_stream sleeps: the CancelledError handler
StreamCancel(c) ==
    /\ Idle
    /\ pc[c] = "sleeping"
    /\ tr' = [tr EXCEPT ![c] = Close(@)]
    /\ transports' = DeleteTransport(transports, tr[c].session_id)
    /\ pc' = [pc EXCEPT ![c] = "cancelled"]
    /\ UNCHANGED <<token, innerSent, clientStream, reqs,
                   stopped, last>>
    /\ UNCHANGED <<stdioVars, callVars>>

\* MCPServerApp.shutdown
Shutdown ==
    /\ Idle
    /\ ~stopped
    /\ tr' = [c \in Conns |-> IF c \in Range(transports) THEN Close(tr[c]) ELSE tr[c]]
    /\ transports' = EmptyRegistry
    /\ stopped' = TRUE
    /\ UNCHANGED <<token, pc, innerSent, clientStream, reqs,
                   last>>
    /\ UNCHANGED <<stdioVars, callVars>>

----------------------------------------------------------------------------
(* SSE server: POST /messages *)

\* A query is the sequence of its words
Queries == {<<"python">>, <<"Busca">>, <<"SCRAPE">>, <<"google", "extrair">>}
ParamSets == SUBSET {"url", "num"}
MessageTypes == {"toolInvocation", "ping", Absent}

\* `"w" in query.lower()`
Contains(query, w) == \E i \in DOMAIN query : Lower(query[i]) = w

\* Mutant of Route: the scrape words are tested before the search words
RouteScrapeFirst(query) ==
    IF Contains(query, "scrape") \/ Contains(query, "extrair") THEN "scrape"
    ELSE IF Contains(query, "google") \/ Contains(query, "busca") THEN "search"
    ELSE "default"

\* The if / elif / else of messages_endpoint over the query
Route(query) ==
    IF Contains(query, "google") \/ Contains(query, "busca") THEN "search"
    ELSE IF Contains(query, "scrape") \/ Contains(query, "extrair") THEN "scrape"
    ELSE "default"

\* Mutant of MessagesCheck: the type of the message is not checked
MessagesCheckAnyType(reg, hdr, mtype) ==
    IF Falsy(hdr) \/ hdr \notin DOMAIN reg THEN "Sessao invalida ou expirada"
    ELSE ""

\* The two HTTPException(400) checks: "" when the message is accepted
MessagesCheck(reg, hdr, mtype) ==
    IF Falsy(hdr) \/ hdr \notin DOMAIN reg THEN "Sessao invalida ou expirada"
    ELSE IF mtype # "toolInvocation" THEN "Tipo de mensagem invalido"
    ELSE ""

\* A handler of POST /messages: sid and transport are its locals session_id and
\* transport, call and num the upstream call it makes (search with or without
\* num, scrape), raised whether that call raised, status and body the response
\* it returns
NoReq == [pc |-> "unused", sid |-> Absent, transport |-> 0, query |-> <<>>,
          call |-> "none", num |-> FALSE, raised |-> FALSE, status |-> 0, body |-> ""]

ToolResult(name, req) == M("toolResult", name, "", <<>>, req)

\* `except Exception as e:` of messages_endpoint: send_error, then the error body;
\* an exception of send_error itself leaves the handler (HTTP 500)
ExceptBranch(t, log, req, sendOk) ==
    IF SendOutcome(t, sendOk) = "raised"
    THEN [log |-> log, status |-> 500, body |-> ""]
    ELSE [log |-> IF SendOutcome(t, sendOk) = "sent"
                  THEN Append(log, ErrorMessage("Erro ao processar mensagem", req))
                  ELSE log,
          status |-> 200, body |-> "error"]

\* A send inside the try block, followed by `return` with the given body
TrySend(t, log, msg, body, req, sendOk, sendOk2) ==
    IF SendOutcome(t, sendOk) = "raised"
    THEN ExceptBranch(t, log, req, sendOk2)
    ELSE [log |-> IF SendOutcome(t, sendOk) = "sent" THEN Append(log, msg) ELSE log,
          status |-> 200, body |-> body]

\* POST /messages rejected by the handler with HTTPException(400)
MessagesReject(auth, hdr, mtype) ==
    /\ Idle
    /\ AuthMiddleware(token, "/messages", auth) = 0
    /\ MessagesCheck(transports, hdr, mtype) # ""
    /\ last' = Exchange("/messages", auth, hdr, mtype, 400, TRUE, FALSE, "",
                        MessagesCheck(transports, hdr, mtype))
    /\ UNCHANGED <<token, transports, tr, pc, innerSent, clientStream, reqs,
                   stopped>>
    /\ UNCHANGED <<stdioVars, callVars>>

\* POST /messages accepted, routed to scrape, without "url": send_error and return
MessagesNoUrl(r, auth, hdr, mtype, query, params, sendOk, sendOk2) ==
    /\ Idle
    /\ AuthMiddleware(token, "/messages", auth) = 0
    /\ MessagesCheck(transports, hdr, mtype) = ""
    /\ reqs[r].pc = "unused" /\ \A q \in DOMAIN reqs : q < r => reqs[q].pc # "unused"
    /\ Route(query) = "scrape" /\ "url" \notin params
    /\ LET c == transports[hdr]
           res == TrySend(tr[c], innerSent[c], ErrorMessage("URL nao informada", r),
                          "error", r, sendOk, sendOk2)
       IN /\ innerSent' = [innerSent EXCEPT ![c] = res.log]
          /\ reqs' = [reqs EXCEPT ![r] =
                         [NoReq EXCEPT !.pc = "done", !.sid = hdr, !.transport = c,
                                       !.query = query,
                                       !.status = res.status, !.body = res.body]]
          /\ last' = [Exchange("/messages", auth, hdr, mtype, res.status,
                               TRUE, FALSE, res.body, "") EXCEPT !.params = params]
    /\ UNCHANGED <<token, transports, tr, pc, clientStream, stopped>>
    /\ UNCHANGED <<stdioVars, callVars>>

\* POST /messages accepted: the handler up to `await self.serper_client.search(...)`
\* or `await self.serper_client.scrape(...)`
MessagesAccept(r, auth, hdr, mtype, query, params) ==
    /\ Idle
    /\ AuthMiddleware(token, "/messages", auth) = 0
    /\ MessagesCheck(transports, hdr, mtype) = ""
    /\ reqs[r].pc = "unused" /\ \A q \in DOMAIN reqs : q < r => reqs[q].pc # "unused"
    /\ ~(Route(query) = "scrape" /\ "url" \notin params)
    /\ reqs' = [reqs EXCEPT ![r] =
                   [NoReq EXCEPT !.pc = "awaitUpstream", !.sid = hdr,
                                 !.transport = transports[hdr],
                                 !.query = query,
                                 !.call = IF Route(query) = "scrape" THEN "scrape"
                                          ELSE "search",
                                 !.num = (Route(query) = "search" /\ "num" \in params)]]
    /\ last' = [Exchange("/messages", auth, hdr, mtype, 0, TRUE, TRUE, "", "")
                    EXCEPT !.params = params]
    /\ UNCHANGED <<token, transports, tr, pc, innerSent, clientStream, stopped>>
    /\ UNCHANGED <<stdioVars, callVars>>

\* The upstream call returns or raises; the handler sends on the transport it
\* looked up before the await and returns
UpstreamReturn(r, upstreamOk, sendOk, sendOk2) ==
    /\ Idle
    /\ reqs[r].pc = "awaitUpstream"
    /\ LET c == reqs[r].transport
           name == IF reqs[r].call = "scrape" THEN "scrape" ELSE "google_search"
           res == IF upstreamOk
                  THEN TrySend(tr[c], innerSent[c], ToolResult(name, r), "ok", r,
                               sendOk, sendOk2)
                  ELSE ExceptBranch(tr[c], innerSent[c], r, sendOk)
       IN /\ innerSent' = [innerSent EXCEPT ![c] = res.log]
          /\ reqs' = [reqs EXCEPT ![r].pc = "done", ![r].raised = ~upstreamOk,
                                  ![r].status = res.status, ![r].body = res.body]
    /\ UNCHANGED <<token, transports, tr, pc, clientStream, stopped, last>>
    /\ UNCHANGED <<stdioVars, callVars>>

----------------------------------------------------------------------------
(* stdio servers: messages *)

Servers == {"main", "mcp_serper_server"}

\* An input line: text that is not JSON, a JSON value that is not an object
\* ([1,2], 42, null), or an object with its "id", "method", params.name, the
\* keys of params.arguments, and whether the upstream API answers this call 200
Line(kind, id, method, name, args, up) ==
    [kind |-> kind, id |-> id, method |-> method, name |-> name, args |-> args, up |-> up]

NoLine == Line("none", Absent, Absent, Absent, {}, FALSE)
NotJson == Line("text", Absent, Absent, Absent, {}, FALSE)
NotObject == Line("value", Absent, Absent, Absent, {}, FALSE)

Ids == {"1", "2"}
Null == "null"

\* tools_definitions.keys() of the two files agree on these names
CommonTools ==
    {"google_search", "scrape", "_health", "analyze_serp", "research_keywords",
     "analyze_competitors", "autocomplete", "maps_search", "reviews_search",
     "shopping_search", "lens_search", "scholar_search", "patents_search",
     "webpage_search", "news_search", "places_search"}

\* The names mcp.ListTools returns: the keys of tools_definitions
ListedTools(srv) ==
    IF srv = "main"
    THEN CommonTools \cup {"image_search", "video_search"}
    ELSE CommonTools \cup {"youtube_search", "instagram_search"}

\* The names the if/elif chain of mcp.CallTool has a branch for
DispatchedTools(srv) ==
    IF srv = "main"
    THEN CommonTools \cup {"image_search", "video_search"}
    ELSE CommonTools \cup {"image_search", "video_search", "youtube_search",
                           "instagram_search"}

AllTools == CommonTools \cup {"image_search", "video_search", "youtube_search",
                              "instagram_search"}

\* The parameter of the tool's schema that carries the query
SchemaKey(name) ==
    CASE name = "scrape" -> "url"
      [] name = "_health" -> "random_string"
      [] name = "analyze_serp" -> "query"
      [] name = "research_keywords" -> "keyword"
      [] name = "analyze_competitors" -> "domain"
      [] name = "autocomplete" -> "queries"
      [] name = "lens_search" -> "image_url"
      [] name = "webpage_search" -> "url"
      [] OTHER -> "q"

Methods == {Absent, "", "mcp.ListTools", "mcp.ListPrompts"}

Lines ==
    {NotJson, NotObject}
    \cup {Line("object", i, m, Absent, {}, FALSE) : i \in Ids \cup {Absent}, m \in Methods}
    \cup UNION {{Line("object", i, "mcp.CallTool", n, a, up) :
                     i \in Ids, a \in {{SchemaKey(n)}, {}}, up \in BOOLEAN} :
                n \in AllTools \cup {"nope"}}

----------------------------------------------------------------------------
(* stdio servers: SerperClient and SerperSearchTools of mcp_serper_server.py *)

\* _make_request(self, method, endpoint, payload) takes three arguments
MakeRequestParams == 3

\* _make_request called with nargs arguments: TypeError on an arity mismatch,
\* otherwise the parsed body on status 200 and an exception on any other status
MakeRequest(nargs, up) ==
    IF nargs # MakeRequestParams THEN "TypeError"
    ELSE IF up THEN "ok" ELSE "raise"

\* Keyword parameters of SerperSearchTools.video_search / youtube_search /
\* instagram_search, which handle_message calls with **arguments
VideoParams == {"query", "location", "gl", "hl", "num"}
YoutubeParams == {"q", "location", "gl", "hl", "num", "tbs"}

\* TRUE iff search_tools.<tool>(arguments) returns instead of raising
ToolReturns(name, args, up) ==
    CASE name \in {"google_search", "scrape", "analyze_serp", "research_keywords",
                   "analyze_competitors"} ->
             MakeRequest(3, up) = "ok"
      [] name = "_health" -> TRUE
      [] name = "autocomplete" -> "queries" \in args /\ MakeRequest(3, up) = "ok"
      [] name = "lens_search" -> "image_url" \in args /\ MakeRequest(3, up) = "ok"
      [] name = "webpage_search" -> "url" \in args /\ MakeRequest(3, up) = "ok"
      [] name = "video_search" ->
             /\ args \subseteq VideoParams /\ "query" \in args
             /\ MakeRequest(2, up) = "ok"
      [] name \in {"youtube_search", "instagram_search"} ->
             /\ args \subseteq YoutubeParams /\ "q" \in args
             /\ MakeRequest(2, up) = "ok"
      [] OTHER -> "q" \in args /\ MakeRequest(3, up) = "ok"

\* tools/search_tools.py, which main.py imports: the call returns iff the
\* upstream API answers 200
MainToolReturns(name, args, up) == up

----------------------------------------------------------------------------
(* stdio servers: handle_message and main *)

Response(id, outcome, msg, tools) ==
    [id |-> id, outcome |-> outcome, msg |-> msg, tools |-> tools]

\* message.get("id"): None, written as null, when the key is missing
MessageId(m) == IF m.id = Absent THEN Null ELSE m.id

\* Mutant of HandleMessage: no branch for a tool name outside the if / elif chain
HandleMessageNoUnknownBranch(srv, m) ==
    IF m.method \in {Absent, ""}
    THEN Response(Absent, "error", "Nenhum metodo especificado", {})
    ELSE IF m.method = "mcp.ListTools"
    THEN Response(MessageId(m), "result", "", ListedTools(srv))
    ELSE IF m.method = "mcp.CallTool"
    THEN IF (IF srv = "main" THEN MainToolReturns(m.name, m.args, m.up)
                             ELSE ToolReturns(m.name, m.args, m.up))
         THEN Response(MessageId(m), "result", "", {})
         ELSE Response(MessageId(m), "error", "Erro interno do servidor", {})
    ELSE Response(MessageId(m), "error", "Metodo nao implementado", {})

HandleMessage(srv, m) ==
    IF m.method \in {Absent, ""}
    THEN Response(Absent, "error", "Nenhum metodo especificado", {})
    ELSE IF m.method = "mcp.ListTools"
    THEN Response(MessageId(m), "result", "", ListedTools(srv))
    ELSE IF m.method = "mcp.CallTool"
    THEN IF m.name \in DispatchedTools(srv)
         THEN IF (IF srv = "main" THEN MainToolReturns(m.name, m.args, m.up)
                                  ELSE ToolReturns(m.name, m.args, m.up))
              THEN Response(MessageId(m), "result", "", {})
              ELSE Response(MessageId(m), "error", "Erro interno do servidor", {})
         ELSE Response(MessageId(m), "error", "Ferramenta desconhecida", {})
    ELSE Response(MessageId(m), "error", "Metodo nao implementado", {})

\* for line in sys.stdin
ReadLine(l) ==
    /\ spc = "read"
    /\ Len(stdin) < MaxLines
    /\ stdin' = Append(stdin, l)
    /\ line' = l
    /\ spc' = "loads"
    /\ UNCHANGED <<server, stdout>>
    /\ UNCHANGED <<sseVars, callVars>>

\* json.loads raises JSONDecodeError: the line is logged and skipped
SkipLine ==
    /\ spc = "loads"
    /\ line.kind = "text"
    /\ spc' = "read"
    /\ line' = NoLine
    /\ UNCHANGED <<server, stdin, stdout>>
    /\ UNCHANGED <<sseVars, callVars>>

\* json.loads returns an object: handle_message, then the response line is
\* written and flushed
HandleAndWrite ==
    /\ spc = "loads"
    /\ line.kind = "object"
    /\ stdout' = Append(stdout, HandleMessage(server, line))
    /\ spc' = "read"
    /\ line' = NoLine
    /\ UNCHANGED <<server, stdin>>
    /\ UNCHANGED <<sseVars, callVars>>

\* json.loads returns a list, number, string or null: message.get raises
\* AttributeError in the try block and again in the except block of
\* handle_message; main catches neither and the process ends
Crash ==
    /\ spc = "loads"
    /\ line.kind = "value"
    /\ spc' = "crashed"
    /\ line' = NoLine
    /\ UNCHANGED <<server, stdin, stdout>>
    /\ UNCHANGED <<sseVars, callVars>>

----------------------------------------------------------------------------
(* Single calls: how a call is recorded *)

\* A call of a method: its name, its arguments, what it passed to the object
\* below it (response.send, the HTTP client), in order, and how it ended
Call(op, args, sent, result) ==
    [op |-> op, args |-> args, sent |-> sent, result |-> result]

\* A call ends by returning a value or by raising
Return(value) == [kind |-> "return", value |-> value]
Raise == [kind |-> "raise", value |-> <<>>]

----------------------------------------------------------------------------
(* Single calls: SSEServerTransport.send_message *)

\* Text is a sequence of parts, each a literal or the JSON encoding of a value
Literal(s) == [lit |-> s, json |-> <<>>]
JsonDumps(value) == <<[lit |-> "", json |-> value]>>

\* json.loads: the value of a text that is one JSON encoding, else an error
JsonLoads(text) ==
    IF Len(text) = 1 /\ text[1].lit = "" THEN text[1].json
    ELSE [error |-> "JSONDecodeError"]

\* The first argument send_message gives to response.send
SendPayload(message) == JsonDumps(message)

\* The messages given to send_message
SentMessages ==
    {ToolResult("google_search", 1), ToolResult("scrape", 1),
     ErrorMessage("URL nao informada", 1), M("ack", "", "", <<>>, 0)}

\* send_message on a transport whose response is None or set
StartedOrNot == {NewTransport, [NewTransport EXCEPT !.response = "Set"]}

\* await transport.send_message(message)
CallSendMessage(t, message, sendOk) ==
    /\ Len(calls) < MaxCalls
    /\ calls' = Append(calls,
           Call("send_message",
                   [transport |-> t, message |-> message],
                   IF SendOutcome(t, sendOk) = "dropped" THEN <<>>
                   ELSE <<[payload |-> SendPayload(message), event |-> "message"]>>,
                   IF SendOutcome(t, sendOk) = "raised" THEN Raise ELSE Return(<<>>)))
    /\ UNCHANGED <<sseVars, stdioVars>>

----------------------------------------------------------------------------
(* Single calls: the async SerperClient of mcp_server_serper *)

ApiKeys == {"chave_teste", "k2"}

\* num: Optional[int] = None
NoNum == "None"
Nums == {NoNum, "0", "10"}

\* What the upstream API does with a request: it answers 200 with a JSON body,
\* answers with an error status, answers 200 with a body that is not JSON, or
\* the request fails in transport
NoBody == [status |-> "", message |-> ""]
Bodies == {[status |-> "ok", message |-> "r1"], [status |-> "ok", message |-> "r2"]}
Upstreams ==
    {[kind |-> "ok", body |-> b] : b \in Bodies}
    \cup {[kind |-> k, body |-> NoBody] : k \in {"status", "notjson", "exception"}}

HttpRequest(method, url, json, key) ==
    [method |-> method, url |-> url, json |-> json, key |-> key]

\* Mutant of SearchPayload: `if num:` instead of `if num is not None:`
SearchPayloadTruthy(q, gl, hl, num) ==
    IF num \notin {NoNum, "0"}
    THEN [q |-> q, gl |-> gl, hl |-> hl, num |-> num]
    ELSE [q |-> q, gl |-> gl, hl |-> hl]

\* search: the payload with the three required parameters, and num if given
SearchPayload(q, gl, hl, num) ==
    IF num # NoNum
    THEN [q |-> q, gl |-> gl, hl |-> hl, num |-> num]
    ELSE [q |-> q, gl |-> gl, hl |-> hl]

\* search and scrape: raise_for_status() and response.json() in a try block whose
\* except branches log and re-raise
PostResult(up) == IF up.kind = "ok" THEN Return(up.body) ELSE Raise

\* Mutant of HealthResult: only HTTPStatusError is turned into an error dict
HealthResultStatusOnly(up) ==
    IF up.kind = "ok" THEN Return(up.body)
    ELSE IF up.kind = "status" THEN Return([status |-> "error", message |-> "str(e)"])
    ELSE Raise

\* health: both except branches return {"status": "error", "message": str(e)}
HealthResult(up) ==
    IF up.kind = "ok" THEN Return(up.body)
    ELSE Return([status |-> "error", message |-> "str(e)"])

\* await client.search(q=q, gl=gl, hl=hl, num=num)
CallSearch(key, q, gl, hl, num, up) ==
    /\ Len(calls) < MaxCalls
    /\ calls' = Append(calls,
           Call("search",
                   [key |-> key, q |-> q, gl |-> gl, hl |-> hl, num |-> num, up |-> up],
                   <<HttpRequest("POST", "/search", SearchPayload(q, gl, hl, num), key)>>,
                   PostResult(up)))
    /\ UNCHANGED <<sseVars, stdioVars>>

\* await client.scrape(url=url, include_markdown=md)
CallScrape(key, url, md, up) ==
    /\ Len(calls) < MaxCalls
    /\ calls' = Append(calls,
           Call("scrape",
                   [key |-> key, url |-> url, md |-> md, up |-> up],
                   <<HttpRequest("POST", "/scrape",
                                 [url |-> url, includeMarkdown |-> md], key)>>,
                   PostResult(up)))
    /\ UNCHANGED <<sseVars, stdioVars>>

\* await client.health()
CallHealth(key, up) ==
    /\ Len(calls) < MaxCalls
    /\ calls' = Append(calls,
           Call("health",
                   [key |-> key, up |-> up],
                   <<HttpRequest("GET", "/_health", <<>>, key)>>,
                   HealthResult(up)))
    /\ UNCHANGED <<sseVars, stdioVars>>

----------------------------------------------------------------------------
(* Single calls: the autocomplete tool of mcp_serper_server.py *)

\* The arguments of the tool: a dict with any of the keys queries, location, gl, hl
OptionalKey(key, values) == {<<>>} \cup {key :> v : v \in values}
AutocompleteParams ==
    {q @@ l @@ g @@ h :
        q \in OptionalKey("queries", {<<>>, <<"a">>, <<"b", "a">>}),
        l \in OptionalKey("location", {"", "Brazil"}),
        g \in OptionalKey("gl", {"br"}),
        h \in OptionalKey("hl", {"pt"})}

\* params.get(key, default)
Get(params, key, default) == IF key \in DOMAIN params THEN params[key] ELSE default

\* Mutant of AutocompleteItem: location is copied even when it is empty
AutocompleteItemAlwaysLocation(q, location, gl, hl) ==
    [q |-> q, gl |-> gl, hl |-> hl, location |-> location]

\* query_item: q, gl and hl, and location `if location:`
AutocompleteItem(q, location, gl, hl) ==
    IF location # ""
    THEN [q |-> q, gl |-> gl, hl |-> hl, location |-> location]
    ELSE [q |-> q, gl |-> gl, hl |-> hl]

\* query_list: one item per query, in the order of queries
AutocompleteList(params) ==
    LET queries == Get(params, "queries", <<>>)
    IN [i \in 1..Len(queries) |->
            AutocompleteItem(queries[i], Get(params, "location", ""),
                             Get(params, "gl", "us"), Get(params, "hl", "en"))]

\* search_tools.autocomplete(params): ValueError when `not queries`, otherwise
\* serper_client.autocomplete(query_list), one POST to /autocomplete; every
\* exception is raised again as Exception
CallAutocomplete(key, params, up) ==
    /\ Len(calls) < MaxCalls
    /\ calls' = Append(calls,
           Call("autocomplete",
                [key |-> key, params |-> params, up |-> up],
                IF Get(params, "queries", <<>>) = <<>> THEN <<>>
                ELSE <<HttpRequest("POST", "/autocomplete", AutocompleteList(params), key)>>,
                IF Get(params, "queries", <<>>) = <<>> THEN Raise
                ELSE IF MakeRequest(3, up.kind = "ok") = "ok" THEN Return(up.body)
                ELSE Raise))
    /\ UNCHANGED <<sseVars, stdioVars>>

----------------------------------------------------------------------------
(* Single calls: SSEServerTransport.stream_generator and its consumer *)

MaxNexts == 4

\* How the consumer leaves the generator after its next() calls: it keeps it, throws
\* asyncio.CancelledError or an Exception into it, or closes it (GeneratorExit)
Ends == {"none", "CancelledError", "Exception", "GeneratorExit"}

\* An event the generator yields, with the value of count at the yield
StreamEvent(event, data, count) == [event |-> event, data |-> data, count |-> count]

\* The generator object before its first next()
NewGenerator(t) == [pc |-> "created", count |-> 0, response |-> t.response, events |-> <<>>]

\* `while True: if count % 30 == 0: yield ...; count += 1; time.sleep(1)` run from
\* the test of count up to the next yield
RECURSIVE LoopToYield(_)
LoopToYield(count) == IF count % 30 = 0 THEN count ELSE LoopToYield(count + 1)

\* next(generator): the body runs from where it is suspended to its next yield
GeneratorNext(g, t) ==
    CASE g.pc = "created" ->
             [g EXCEPT !.pc = "connected",
                       !.events = Append(@, StreamEvent("connected", t.session_id, 0))]
      [] g.pc = "connected" ->
             [g EXCEPT !.pc = "ping", !.count = LoopToYield(0),
                       !.events = Append(@, StreamEvent("ping", "", LoopToYield(0)))]
      [] g.pc = "ping" ->
             [g EXCEPT !.count = LoopToYield(g.count + 1),
                       !.events = Append(@, StreamEvent("ping", "", LoopToYield(g.count + 1)))]
      [] OTHER -> g

\* generator.throw(exc) or generator.close(): raised at the yield the generator is
\* suspended at; the two except clauses set self.response = None; GeneratorExit is
\* no Exception, and a generator that never ran has not entered its try block
GeneratorEnd(g, end) ==
    IF end = "none" \/ g.pc = "ended" THEN g
    ELSE IF g.pc = "created" \/ end = "GeneratorExit" THEN [g EXCEPT !.pc = "ended"]
    ELSE [g EXCEPT !.pc = "ended", !.response = "None"]

RECURSIVE GeneratorRun(_, _, _)
GeneratorRun(g, t, nexts) ==
    IF nexts = 0 THEN g ELSE GeneratorRun(GeneratorNext(g, t), t, nexts - 1)

CallStreamGenerator(t, nexts, end) ==
    /\ Len(calls) < MaxCalls
    /\ LET g == GeneratorEnd(GeneratorRun(NewGenerator(t), t, nexts), end)
       IN calls' = Append(calls,
              Call("stream_generator",
                   [transport |-> t, nexts |-> nexts, end |-> end],
                   g.events,
                   Return([ended |-> g.pc = "ended", response |-> g.response])))
    /\ UNCHANGED <<sseVars, stdioVars>>

----------------------------------------------------------------------------
(* Specifications *)

SseInit(tokens) ==
    /\ token \in tokens
    /\ transports = EmptyRegistry
    /\ tr = [c \in Conns |-> NewTransport]
    /\ pc = [c \in Conns |-> "unused"]
    /\ innerSent = [c \in Conns |-> <<>>]
    /\ clientStream = [c \in Conns |-> <<>>]
    /\ reqs = [r \in Reqs |-> NoReq]
    /\ stopped = FALSE
    /\ last = NoExchange

StdioInit(servers) ==
    /\ server \in servers
    /\ stdin = <<>>
    /\ spc = "read"
    /\ line = NoLine
    /\ stdout = <<>>
    /\ calls = <<>>

\* Spec: the sessions. Every client presents the configured token or none.
SpecAuths == {NoAuth, <<"Bearer", "tok">>}
SpecHeaders == SessionIds \cup {Absent}
SpecTypes == {"toolInvocation", "ping"}

Init == SseInit({"tok"}) /\ StdioInit({"main"})

Next ==
    \/ Idle /\ \E p \in Paths, a \in SpecAuths : AuthReject(p, a)
    \/ Idle /\ \E a \in SpecAuths : Home(a)
    \/ Idle /\ \E a \in SpecAuths, ok \in BOOLEAN : Health(a, ok)
    \/ Idle /\ \E c \in Conns, a \in SpecAuths, h \in SessionHeaders, u \in SessionIds :
               SseEndpoint(c, a, h, u)
    \/ Idle /\ \E c \in Conns, ok \in BOOLEAN : StreamStart(c, ok)
    \/ Idle /\ \E c \in Conns : StreamFail(c)
    \/ Idle /\ \E c \in Conns : EarlyDisconnect(c)
    \/ Idle /\ \E c \in Conns : StreamCancel(c)
    \/ Idle /\ \E a \in SpecAuths, h \in SpecHeaders, t \in SpecTypes : MessagesReject(a, h, t)
    \/ Idle /\ \E r \in Reqs, a \in SpecAuths, h \in SessionIds, t \in SpecTypes,
                  q \in Queries, ps \in ParamSets, ok \in BOOLEAN, ok2 \in BOOLEAN :
               MessagesNoUrl(r, a, h, t, q, ps, ok, ok2)
    \/ Idle /\ \E r \in Reqs, a \in SpecAuths, h \in SessionIds, t \in SpecTypes,
                  q \in Queries, ps \in ParamSets : MessagesAccept(r, a, h, t, q, ps)
    \/ Idle /\ \E r \in Reqs, up \in BOOLEAN, ok \in BOOLEAN, ok2 \in BOOLEAN :
               UpstreamReturn(r, up, ok, ok2)
    \/ Shutdown
    \/ Respond

Spec == Init /\ [][Next]_vars

\* GateSpec: the checks in front of the handlers, for every token setting and
\* every header, over GateConns connections and GateReqs messages.
GateInit == SseInit(Tokens) /\ StdioInit({"main"})

GateNext ==
    \/ Idle /\ \E p \in Paths, a \in AuthHeaders : AuthReject(p, a)
    \/ Idle /\ \E a \in AuthHeaders : Home(a)
    \/ Idle /\ \E a \in AuthHeaders, ok \in BOOLEAN : Health(a, ok)
    \/ Idle /\ \E c \in 1..GateConns, a \in AuthHeaders, h \in SessionHeaders, u \in SessionIds :
               SseEndpoint(c, a, h, u)
    \/ Idle /\ \E c \in 1..GateConns, ok \in BOOLEAN : StreamStart(c, ok)
    \/ Idle /\ \E c \in 1..GateConns : StreamFail(c)
    \/ Idle /\ \E c \in 1..GateConns : EarlyDisconnect(c)
    \/ Idle /\ \E c \in 1..GateConns : StreamCancel(c)
    \/ Idle /\ \E a \in AuthHeaders, h \in SessionHeaders, t \in MessageTypes :
               MessagesReject(a, h, t)
    \/ Idle /\ \E r \in 1..GateReqs, a \in AuthHeaders, h \in SessionIds, t \in MessageTypes,
                  q \in Queries, ps \in ParamSets, ok \in BOOLEAN, ok2 \in BOOLEAN :
               MessagesNoUrl(r, a, h, t, q, ps, ok, ok2)
    \/ Idle /\ \E r \in 1..GateReqs, a \in AuthHeaders, h \in SessionIds, t \in MessageTypes,
                  q \in Queries, ps \in ParamSets : MessagesAccept(r, a, h, t, q, ps)
    \/ Idle /\ \E r \in 1..GateReqs, up \in BOOLEAN, ok \in BOOLEAN, ok2 \in BOOLEAN :
               UpstreamReturn(r, up, ok, ok2)
    \/ Shutdown
    \/ Respond

GateSpec == GateInit /\ [][GateNext]_vars

\* StdioSpec: either stdio server reading up to MaxLines lines.
StdioSpecInit == SseInit({NoToken}) /\ StdioInit(Servers)

StdioNext ==
    \/ \E l \in Lines : ReadLine(l)
    \/ SkipLine
    \/ HandleAndWrite
    \/ Crash

StdioSpec == StdioSpecInit /\ [][StdioNext]_vars

\* CallSpec: up to MaxCalls calls, one after the other.
CallInit == SseInit({NoToken}) /\ StdioInit({"main"})

CallNext ==
    \/ \E t \in StartedOrNot, m \in SentMessages, ok \in BOOLEAN : CallSendMessage(t, m, ok)
    \/ \E k \in ApiKeys, gl \in {"us", "br"}, n \in Nums, up \in Upstreams :
           CallSearch(k, "python", gl, "pt", n, up)
    \/ \E k \in ApiKeys, md \in {"False", "True"}, up \in Upstreams :
           CallScrape(k, "https://example.com", md, up)
    \/ \E k \in ApiKeys, up \in Upstreams : CallHealth(k, up)
    \/ \E p \in AutocompleteParams, up \in Upstreams : CallAutocomplete("k2", p, up)
    \/ \E t \in StartedOrNot, n \in 0..MaxNexts, e \in Ends :
           CallStreamGenerator([t EXCEPT !.session_id = "s1"], n, e)

CallSpec == CallInit /\ [][CallNext]_vars

----------------------------------------------------------------------------
(* SSE server: claims *)

\* A step in which a request is taken and handled up to its response or its await
Handled == last = NoExchange /\ last' # NoExchange

\* Everything the server has emitted for connection c, on the response returned
\* to the client and on the response object held by the connection's transport
Events(c) == clientStream[c] \o innerSent[c]

HasMessageOf(s, r) == \E i \in DOMAIN s : s[i].req = r

\* The client of connection c still holds its GET /sse open
Open(c) == pc[c] \in {"returned", "sleeping"}

\* C1: every accepted POST /messages for session id s has its toolResult or error
\* message pushed on the stream of a connection of session s, and on no stream of
\* another session id.
C1_ResultOnSessionStream ==
    \A r \in Reqs :
        (reqs[r].pc = "done" /\ reqs[r].status = 200) =>
            /\ \E c \in Conns : tr[c].session_id = reqs[r].sid /\ HasMessageOf(Events(c), r)
            /\ \A c \in Conns :
                   tr[c].session_id # reqs[r].sid => ~HasMessageOf(Events(c), r)

\* C2: once the server has done its part of opening a /sse connection (sse_stream
\* reached its keep-alive loop, or the stream ended on the server's side), the
\* client has been sent a "connected" event with the session id of its transport
\* and an "open" event listing exactly google_search, scrape and _health.
C2_StreamDeliversSessionAndOpen ==
    \A c \in Conns :
        pc[c] \in {"sleeping", "failed"} =>
            /\ \E i \in DOMAIN Events(c) :
                   /\ Events(c)[i].type = "connected"
                   /\ Events(c)[i].name = tr[c].session_id
            /\ \E i \in DOMAIN Events(c) :
                   /\ Events(c)[i].type = "open"
                   /\ Range(Events(c)[i].tools) = {"google_search", "scrape", "_health"}

\* C3: while a /sse connection for session id s is open (and the server has not
\* been shut down), a toolInvocation posted with s passes the session check.
C3_OpenSessionAccepted ==
    \A c \in Conns :
        (Open(c) /\ ~stopped) =>
            MessagesCheck(transports, tr[c].session_id, "toolInvocation")
                # "Sessao invalida ou expirada"

\* C4: a POST /messages that reaches its handler with a missing session header, with
\* a session id that is not registered, or with a type other than toolInvocation is
\* answered 400, calls no upstream API, sends nothing on any transport and leaves
\* the registry (and every handler in flight) unchanged.
C4_RejectedMessageHasNoEffect ==
    [][(/\ Handled
        /\ last'.path = "/messages"
        /\ last'.reached
        /\ \/ last'.sid \in {Absent, ""}
           \/ last'.sid \notin DOMAIN transports
           \/ last'.mtype # "toolInvocation")
       => (/\ last'.status = 400
           /\ ~last'.upstream
           /\ UNCHANGED <<transports, tr, innerSent, clientStream, reqs>>)]_vars

C4_Witness ==
    /\ last.path = "/messages" /\ last.status = 400
    /\ last.sid \in DOMAIN transports /\ last.mtype = "ping"
    /\ \E r \in Reqs : reqs[r].pc = "awaitUpstream"

\* The header has exactly two words, "bearer" in any case and the token
ValidBearer(auth, tok) == Len(auth) = 2 /\ Lower(auth[1]) = "bearer" /\ auth[2] = tok

\* C5: with MCP_TOKEN configured, a request to a route other than /_health whose
\* Authorization header is not "bearer <MCP_TOKEN>" reaches no handler: it is
\* answered 401 when the header is missing or malformed and 403 when the token is
\* wrong, registers no transport and makes no upstream call.
C5_AuthGate ==
    [][(/\ Handled
        /\ TokenConfigured(token)
        /\ last'.path # "/_health"
        /\ ~ValidBearer(last'.auth, token))
       => (/\ ~last'.reached
           /\ last'.status = IF last'.auth = NoAuth THEN 401
                             ELSE IF Len(last'.auth) # 2 \/ Lower(last'.auth[1]) # "bearer"
                                  THEN 401
                                  ELSE 403
           /\ ~last'.upstream
           /\ UNCHANGED <<transports, tr, innerSent, clientStream, reqs>>)]_vars

C5_Witness ==
    /\ TokenConfigured(token)
    /\ last.path = "/sse" /\ last.auth = <<"Bearer", "bad">> /\ last.status = 403

\* C6: a request to /_health reaches its handler whatever its Authorization header,
\* and with MCP_TOKEN unset or empty every request reaches its handler.
C6_HealthAndOpenAccess ==
    [][(Handled /\ (last'.path = "/_health" \/ token \in {NoToken, ""}))
       => last'.reached]_vars

C6_Witness ==
    /\ TokenConfigured(token)
    /\ last.path = "/_health" /\ last.auth = NoAuth /\ last.reached /\ last.status = 200

----------------------------------------------------------------------------
(* stdio servers: claims *)

\* The lines read so far that json.loads accepts, and those among them that
\* are objects, each in input order
JsonLines == SelectSeq(stdin, LAMBDA l : l.kind # "text")
ObjectLines == SelectSeq(stdin, LAMBDA l : l.kind = "object")

\* C7: whenever the server is not in the middle of a line, it has written exactly
\* one response per line read that parses as JSON, in input order (and so the
\* response to line n is written before line n+1 is read).
C7_OneResponsePerJsonLine ==
    spc # "loads" =>
        /\ Len(stdout) = Len(JsonLines)
        /\ \A i \in DOMAIN stdout :
               JsonLines[i].kind = "object"
               /\ stdout[i] = HandleMessage(server, JsonLines[i])

\* C8: every response written carries the "id" of the request it answers.
C8_ResponseIdEqualsRequestId ==
    \A i \in DOMAIN stdout :
        ObjectLines[i].id # Absent => stdout[i].id = ObjectLines[i].id

\* C9: a mcp.CallTool is answered "Ferramenta desconhecida" exactly when its tool
\* name is not among the names mcp.ListTools returns.
C9_ListedIffDispatched ==
    \A i \in DOMAIN stdout :
        ObjectLines[i].method = "mcp.CallTool" =>
            (stdout[i].msg = "Ferramenta desconhecida"
                <=> ObjectLines[i].name \notin ListedTools(server))

\* C10: a mcp.CallTool of a listed tool whose arguments carry the schema's
\* parameter and whose upstream call is answered 200 gets a response with a
\* result and no error.
C10_ListedToolSucceeds ==
    \A i \in DOMAIN stdout :
        (/\ ObjectLines[i].method = "mcp.CallTool"
         /\ ObjectLines[i].name \in ListedTools(server)
         /\ SchemaKey(ObjectLines[i].name) \in ObjectLines[i].args
         /\ ObjectLines[i].up)
        => stdout[i].outcome = "result"

\* The tool of request m raises instead of returning
ToolRaises(srv, m) ==
    IF srv = "main" THEN ~MainToolReturns(m.name, m.args, m.up)
    ELSE ~ToolReturns(m.name, m.args, m.up)

\* C28: every response written holds a result or an error (never both, never
\* neither); a mcp.CallTool of a tool name the server neither lists nor dispatches
\* and a method other than mcp.ListTools and mcp.CallTool are answered with an
\* error; a dispatched tool that raises gets the one response of its request, the
\* error "Erro interno do servidor" with the id of the request, and the server goes
\* on reading: it only ever stops on a line that is not a JSON object.
C28_ErrorsBecomeResponses ==
    /\ Len(stdout) <= Len(ObjectLines)
    /\ spc # "loads" => Len(stdout) = Len(ObjectLines)
    /\ spc = "crashed" => stdin[Len(stdin)].kind = "value"
    /\ \A i \in DOMAIN stdout :
           /\ stdout[i].outcome \in {"result", "error"}
           /\ (stdout[i].outcome = "error") <=> (stdout[i].msg # "")
           /\ (/\ ObjectLines[i].method = "mcp.CallTool"
               /\ ObjectLines[i].name \notin ListedTools(server) \cup DispatchedTools(server))
              => (stdout[i].outcome = "error" /\ stdout[i].msg = "Ferramenta desconhecida")
           /\ ObjectLines[i].method \notin {Absent, "", "mcp.ListTools", "mcp.CallTool"}
              => (stdout[i].outcome = "error" /\ stdout[i].msg = "Metodo nao implementado")
           /\ (/\ ObjectLines[i].method = "mcp.CallTool"
               /\ ObjectLines[i].name \in DispatchedTools(server)
               /\ ToolRaises(server, ObjectLines[i]))
              => /\ stdout[i].outcome = "error"
                 /\ stdout[i].msg = "Erro interno do servidor"
                 /\ stdout[i].id = ObjectLines[i].id

C28_Witness ==
    /\ Len(stdin) = 2 /\ Len(stdout) = 2 /\ spc = "read"
    /\ stdin[1].method = "mcp.CallTool" /\ stdin[1].name = "google_search"
    /\ stdout[1].msg = "Erro interno do servidor"
    /\ stdin[2].name = "nope"
    /\ stdout[2].msg = "Ferramenta desconhecida"

\* C11: on the main.py server a mcp.CallTool for youtube_search or instagram_search
\* is dispatched to the tool and is not answered with the unknown-tool error.
C11_MainDispatchesYoutubeInstagram ==
    \A i \in DOMAIN stdout :
        (/\ server = "main"
         /\ ObjectLines[i].method = "mcp.CallTool"
         /\ ObjectLines[i].name \in {"youtube_search", "instagram_search"})
        => stdout[i].msg # "Ferramenta desconhecida"

\* C12: every toolInvocation accepted for a registered session id is answered with
\* HTTP 200, whether the upstream call and the push on the transport succeed or fail.
C12_AcceptedMessageAnswered200 ==
    \A r \in Reqs : reqs[r].pc = "done" => reqs[r].status = 200

\* Number of open messages among the messages a response accepted
Opens(s) == Cardinality({i \in DOMAIN s : s[i].type = "open"})

C19_DisconnectRemovesOwnTransportOnly ==
    [][\A c \in Conns :
           (pc[c] = "sleeping" /\ pc'[c] = "cancelled") =>
               \A s \in DOMAIN transports :
                   transports[s] # c =>
                       s \in DOMAIN transports' /\ transports'[s] = transports[s]]_vars

\* Connection d is of a GET /sse handled after the one of connection c, with the
\* same session id
LaterSameId(c, d) ==
    d > c /\ pc[d] # "unused" /\ tr[d].session_id = tr[c].session_id

\* C20: a GET /sse leaves the registry holding, under its session id, the transport
\* it created (one entry per id, the most recent request's), and once a later
\* GET /sse has presented the session id of connection c, no toolResult is sent on
\* the transport of c any more.
C20_NewestTransportReceives ==
    [][\A c \in Conns :
           /\ (pc[c] = "unused" /\ pc'[c] = "returned") =>
                  transports'[tr'[c].session_id] = c
           /\ (/\ Len(innerSent'[c]) = Len(innerSent[c]) + 1
               /\ innerSent'[c][Len(innerSent'[c])].type = "toolResult")
              => ~\E d \in Conns : LaterSameId(c, d)]_vars

\* C21: a POST /messages that returned {"status": "ok"} had its toolResult sent on
\* the response of the transport the handler looked up for the session.
C21_OkOnlyIfResultSent ==
    \A r \in Reqs :
        (reqs[r].pc = "done" /\ reqs[r].status = 200 /\ reqs[r].body = "ok") =>
            \E i \in DOMAIN innerSent[reqs[r].transport] :
                /\ innerSent[reqs[r].transport][i].type = "toolResult"
                /\ innerSent[reqs[r].transport][i].req = r

\* C22: each registry entry maps a session id s to a transport whose session_id
\* field is s (the id its 'connected' event would carry is the key POST /messages
\* looks up); the id of a transport is the X-MCP-Session-ID header of its GET /sse
\* when the header holds an id, and an id no transport was given before when the
\* header is missing or empty.
C22_RegistryKeyIsSessionId ==
    [][/\ \A s \in DOMAIN transports' : tr'[transports'[s]].session_id = s
       /\ \A c \in Conns :
              (pc[c] = "unused" /\ pc'[c] = "returned") =>
                  /\ tr'[c].session_id \in DOMAIN transports'
                  /\ transports'[tr'[c].session_id] = c
                  /\ IF last'.sid \in {Absent, ""}
                     THEN \A d \in Conns : tr[d].session_id # tr'[c].session_id
                     ELSE tr'[c].session_id = last'.sid]_vars

C22_Witness ==
    /\ last.path = "/sse" /\ last.reached /\ last.sid = ""
    /\ Cardinality(DOMAIN transports) = 2
    /\ \A s \in DOMAIN transports : tr[transports[s]].session_id = s
    /\ \E c \in Conns : pc[c] = "sleeping"

\* The words of a query, in lower case
LowerWords(query) == {Lower(query[i]) : i \in DOMAIN query}

MessagesOf(c, r) == {i \in DOMAIN innerSent[c] : innerSent[c][i].req = r}

\* C24: a toolInvocation routed to scrape without "url" (the only handled request
\* that makes no upstream call) has exactly one message on its session's transport,
\* the error "URL nao informada", and returned status "error".
C24_NoUrlSendsOneError ==
    \A r \in Reqs :
        (reqs[r].pc = "done" /\ reqs[r].call = "none") =>
            /\ reqs[r].status = 200 /\ reqs[r].body = "error"
            /\ Cardinality(MessagesOf(reqs[r].transport, r)) = 1
            /\ \A i \in MessagesOf(reqs[r].transport, r) :
                   innerSent[reqs[r].transport][i] = ErrorMessage("URL nao informada", r)

\* C25: when the upstream call of a handled toolInvocation raises, exactly one error
\* message and no toolResult is sent on the session's transport, the handler
\* returns status "error", and the step changes neither the registry nor any
\* transport, so a session registered before is registered after.
C25_UpstreamFailureSendsOneError ==
    [][\A r \in Reqs :
           (reqs[r].pc = "awaitUpstream" /\ reqs'[r].pc = "done" /\ reqs'[r].raised) =>
               /\ reqs'[r].status = 200 /\ reqs'[r].body = "error"
               /\ Cardinality({i \in DOMAIN innerSent'[reqs[r].transport] :
                                   /\ innerSent'[reqs[r].transport][i].req = r
                                   /\ innerSent'[reqs[r].transport][i].type = "error"}) = 1
               /\ \A c \in Conns : \A i \in DOMAIN innerSent'[c] :
                      innerSent'[c][i].req = r => innerSent'[c][i].type # "toolResult"
               /\ UNCHANGED <<transports, tr>>]_vars

----------------------------------------------------------------------------
(* Single calls: claims *)

\* The text holds the "data: " prefix of an SSE data line
HasDataFraming(text) == \E i \in DOMAIN text : text[i].lit = "data: "

\* str.replace("data: ", "")
RemoveDataPrefix(text) == SelectSeq(text, LAMBDA part : part.lit # "data: ")

\* C14: send_message on a transport whose response is set calls response.send
\* exactly once, with a payload that carries "data:" framing and that, with the
\* "data: " prefix removed, JSON-decodes to the message given.
C14_SendMessageFramesJson ==
    \A i \in DOMAIN calls :
        (calls[i].op = "send_message" /\ calls[i].args.transport.response = "Set") =>
            /\ Len(calls[i].sent) = 1
            /\ HasDataFraming(calls[i].sent[1].payload)
            /\ JsonLoads(RemoveDataPrefix(calls[i].sent[1].payload))
                   = calls[i].args.message

\* C15: every call of the async SerperClient.search(q, gl, hl, num) issues exactly
\* one POST to /search whose JSON payload holds the given q, gl and hl, holds num
\* iff num is not None, and whose X-API-KEY header is the client's key; on success
\* it returns the parsed upstream JSON unchanged.
C15_SearchIssuesOnePost ==
    \A i \in DOMAIN calls :
        calls[i].op = "search" =>
            LET a == calls[i].args
                s == calls[i].sent
            IN /\ Len(s) = 1
               /\ s[1].method = "POST" /\ s[1].url = "/search"
               /\ s[1].json.q = a.q /\ s[1].json.gl = a.gl /\ s[1].json.hl = a.hl
               /\ ("num" \in DOMAIN s[1].json) <=> (a.num # "None")
               /\ ("num" \in DOMAIN s[1].json) => s[1].json.num = a.num
               /\ s[1].key = a.key
               /\ a.up.kind = "ok" => calls[i].result = [kind |-> "return", value |-> a.up.body]

C15_Witness ==
    \E i \in DOMAIN calls :
        /\ calls[i].op = "search" /\ calls[i].args.num = "0"
        /\ calls[i].args.up.kind = "ok" /\ calls[i].result.kind = "return"
        /\ \E j \in DOMAIN calls : calls[j].op = "search" /\ calls[j].args.num = "None"

\* C16: a call of the async SerperClient returns the parsed upstream JSON when the
\* upstream answers 200 with JSON; on every other upstream outcome search and
\* scrape raise, and health raises never and returns a dict with status "error".
C16_ClientReturnsOrFails ==
    \A i \in DOMAIN calls :
        calls[i].op \in {"search", "scrape", "health"} =>
            LET up == calls[i].args.up
                res == calls[i].result
            IN IF up.kind = "ok"
               THEN res = [kind |-> "return", value |-> up.body]
               ELSE IF calls[i].op = "health"
                    THEN res.kind = "return" /\ res.value.status = "error"
                    ELSE res.kind = "raise"

C16_Witness ==
    /\ \E i \in DOMAIN calls :
           calls[i].op = "health" /\ calls[i].args.up.kind = "exception"
           /\ calls[i].result.kind = "return"
    /\ \E i \in DOMAIN calls :
           calls[i].op = "scrape" /\ calls[i].args.up.kind = "status"
           /\ calls[i].result.kind = "raise"

\* C17: the autocomplete tool with a missing or empty "queries" issues no upstream
\* request and fails; otherwise it issues exactly one POST to /autocomplete whose
\* list has one item per query, in input order, each holding q, gl (default "us"),
\* hl (default "en"), and location iff a non-empty location was given.
C17_AutocompleteRequest ==
    \A i \in DOMAIN calls :
        calls[i].op = "autocomplete" =>
            LET p == calls[i].args.params
                s == calls[i].sent
                given == "location" \in DOMAIN p /\ p.location # ""
            IN IF "queries" \notin DOMAIN p \/ p.queries = <<>>
               THEN s = <<>> /\ calls[i].result.kind = "raise"
               ELSE /\ Len(s) = 1
                    /\ s[1].method = "POST" /\ s[1].url = "/autocomplete"
                    /\ Len(s[1].json) = Len(p.queries)
                    /\ \A j \in DOMAIN p.queries :
                           /\ s[1].json[j].q = p.queries[j]
                           /\ s[1].json[j].gl = IF "gl" \in DOMAIN p THEN p.gl ELSE "us"
                           /\ s[1].json[j].hl = IF "hl" \in DOMAIN p THEN p.hl ELSE "en"
                           /\ ("location" \in DOMAIN s[1].json[j]) <=> given
                           /\ given => s[1].json[j].location = p.location

C17_Witness ==
    /\ \E i \in DOMAIN calls :
           /\ calls[i].op = "autocomplete"
           /\ DOMAIN calls[i].args.params = {"queries", "location"}
           /\ calls[i].args.params.queries = <<"b", "a">>
           /\ calls[i].args.params.location = ""
           /\ Len(calls[i].sent) = 1
    /\ \E i \in DOMAIN calls :
           /\ calls[i].op = "autocomplete"
           /\ "queries" \notin DOMAIN calls[i].args.params
           /\ calls[i].result.kind = "raise"

\* C27: on a transport's event stream the first event is "connected" with the
\* transport's session id, every later event is a ping, the pings are yielded at
\* iterations 0, 30, 60, ..., and the stream has ended only if the consumer threw a
\* cancellation or an exception into it or closed it, with the transport's response
\* None afterwards.
C27_StreamGeneratorEvents ==
    \A i \in DOMAIN calls :
        calls[i].op = "stream_generator" =>
            /\ Len(calls[i].sent) >= 1 =>
                   /\ calls[i].sent[1].event = "connected"
                   /\ calls[i].sent[1].data = calls[i].args.transport.session_id
            /\ \A j \in 2..Len(calls[i].sent) :
                   /\ calls[i].sent[j].event = "ping"
                   /\ calls[i].sent[j].count = 30 * (j - 2)
            /\ calls[i].result.value.ended =>
                   /\ calls[i].args.end # "none"
                   /\ calls[i].result.value.response = "None"

====
